---- MODULE Spec2Model ----
(***************************************************************************)
(* Weekly auto-reporting system (package weekly_report).                   *)
(*                                                                         *)
(* Spec        the orchestrator run_pipeline driven by its two entry       *)
(*             points (weekly_report.cli and run_weekly_report.py) over a  *)
(*             persistent file system: inbox, processed area, output       *)
(*             directory with the health record.                           *)
(* SpecDedupe  dedupe_df applied to bounded tables and column maps.        *)
(* SpecYesNo   _normalize_yes_no applied to bounded columns.               *)
(* SpecClean   clean_df applied to bounded raw tables.                     *)
(* SpecKpis    compute_kpis and kpi_to_dict applied to bounded batches.    *)
(* SpecReports write_reports applied to every switch combination.          *)
(* SpecProcess process_files applied to bounded sets of input files.       *)
(* SpecRelocate _move_file and send_report_email called in any order on    *)
(*             files that keep arriving under the same names.              *)
(***************************************************************************)
EXTENDS Integers, Sequences, FiniteSets, TLC

\* ------------------------------------------------------------------ bounds
\* File names are 1..MaxFiles; the numeric order is the sorted path order.
MaxFiles == 3
\* Number of pipeline runs (each run reads the clock once more).
MaxRuns == 3
\* Longest table handed to dedupe_df.
MaxRows == 3
\* Longest raw table handed to clean_df.
MaxRawRows == 2
\* Longest batch table handed to compute_kpis.
MaxKpiRows == 2
\* Latest clock reading (in seconds) at which write_reports is called.
MaxClock == 3
\* Number of files that arrive while _move_file is exercised.
MaxArrivals == 3
\* Number of _move_file / send_report_email calls in one behaviour.
MaxCalls == 4
\* Longest column handed to _normalize_yes_no (besides the spec's example).
MaxCells == 2

\* ------------------------------------------------------- program constants
EXIT_OK == 0
EXIT_PIPELINE_FAILED == 2
HEALTH_FILENAME == "health.txt"
None == "<None>"

VARIABLES
    \* ---- durable storage
    inbox,            \* cfg.inbox_dir: file name -> content, for the files present
    processed_dir,    \* cfg.processed_dir: the files relocated there, by name
    reports,          \* report artifacts written into cfg.output_dir
    health,           \* lines of output_dir/health.txt (<<>>: no file yet)
    sent,             \* number of messages handed to the SMTP server
    now,              \* wall clock, one tick per run
    \* ---- one invocation of an entry point
    pc,               \* position of the running program
    entry,            \* "cli", "script", "status" or "" when nothing has run
    dry_run,          \* the --dry-run flag
    email_fails,      \* environment: send_report_email would raise in this run
    move_fails,       \* environment: files whose shutil.move would raise
    files,            \* run_pipeline: the discovered list
    caught,           \* run_pipeline: the exception caught at `except Exception as e`
    outcome,          \* the dict returned by run_pipeline
    exit_code,        \* value returned by main()
    stdout,           \* what main() printed
    \* ---- dedupe_df harness (SpecDedupe)
    df,               \* the table handed to dedupe_df
    cm,               \* the column map handed to dedupe_df
    df_prev,          \* the argument of the latest call
    calls,            \* number of calls made so far
    \* ---- harness of the other functions called on their own
    series,           \* the column handed to _normalize_yes_no
    ret,              \* what the latest call returned or raised
    args              \* the remaining arguments of the call

fs_vars == <<inbox, processed_dir, reports, health, sent, now>>
run_vars == <<pc, entry, dry_run, email_fails, move_fails, files, caught, outcome,
              exit_code, stdout>>
dd_vars == <<df, cm, df_prev, calls, series, ret, args>>
vars == <<fs_vars, run_vars, dd_vars>>

\* ------------------------------------------------------------ exceptions
Ok(v) == [raised |-> FALSE, exc |-> "", value |-> v]
Raise(e) == [raised |-> TRUE, exc |-> e, value |-> <<>>]
\* An exception whose message carries data.
RaiseWith(e, detail) == [raised |-> TRUE, exc |-> e, value |-> detail]

\* pd.DataFrame()
EmptyTable == [columns |-> {}, rows |-> <<>>]

\* -------------------------------------------------------------------- text
\* Text is a sequence of one-character strings.  A cell carries the dtype of
\* its column and the text astype("string") renders it as; a missing value
\* has dtype "na".
Cell(dtype, text) == [dtype |-> dtype, text |-> text]
NA == Cell("na", <<>>)

YES == { <<"y", "e", "s">>, <<"y">>, <<"t", "r", "u", "e">>, <<"t">>, <<"1">> }
NO == { <<"n", "o">>, <<"n">>, <<"f", "a", "l", "s", "e">>, <<"f">>, <<"0">> }

IsSpace(ch) == ch \in {" ", "\t"}

\* The cased letters of the alphabet the inputs are written in.
Lowers == <<"a", "b", "c", "d", "e", "f", "g", "h", "i", "j", "k", "l", "m",
            "n", "o", "p", "q", "r", "s", "t", "u", "v", "w", "x", "y", "z">>
Uppers == <<"A", "B", "C", "D", "E", "F", "G", "H", "I", "J", "K", "L", "M",
            "N", "O", "P", "Q", "R", "S", "T", "U", "V", "W", "X", "Y", "Z">>

IsAlpha(ch) == \E i \in 1..Len(Lowers) : ch = Lowers[i] \/ ch = Uppers[i]

\* str.lower / str.upper on one character.
LowerChar(ch) ==
    IF \E i \in 1..Len(Uppers) : Uppers[i] = ch
    THEN Lowers[CHOOSE i \in 1..Len(Uppers) : Uppers[i] = ch]
    ELSE ch

UpperChar(ch) ==
    IF \E i \in 1..Len(Lowers) : Lowers[i] = ch
    THEN Uppers[CHOOSE i \in 1..Len(Lowers) : Lowers[i] = ch]
    ELSE ch

\* Series.str.lower
StrLower(text) == [i \in 1..Len(text) |-> LowerChar(text[i])]

RECURSIVE LStrip(_)
LStrip(text) ==
    IF text # <<>> /\ IsSpace(Head(text)) THEN LStrip(Tail(text)) ELSE text

RECURSIVE RStrip(_)
RStrip(text) ==
    IF text # <<>> /\ IsSpace(text[Len(text)])
    THEN RStrip(SubSeq(text, 1, Len(text) - 1))
    ELSE text

\* Series.str.strip
StrStrip(text) == RStrip(LStrip(text))

\* Series.str.replace(r"\s+", " ", regex=True): each run of whitespace
\* becomes one space.
RECURSIVE StrCollapse(_)
StrCollapse(text) ==
    IF text = <<>> THEN <<>>
    ELSE IF IsSpace(Head(text)) THEN <<" ">> \o StrCollapse(LStrip(text))
    ELSE <<Head(text)>> \o StrCollapse(Tail(text))

\* Series.str.title: a letter that follows a letter is lower-cased, any
\* other letter is upper-cased.
RECURSIVE TitleFrom(_, _)
TitleFrom(text, after_letter) ==
    IF text = <<>> THEN <<>>
    ELSE LET ch == Head(text)
         IN << IF ~IsAlpha(ch) THEN ch
               ELSE IF after_letter THEN LowerChar(ch) ELSE UpperChar(ch) >>
            \o TitleFrom(Tail(text), IsAlpha(ch))

StrTitle(text) == TitleFrom(text, FALSE)

\* _normalize_text on one cell: missing values stay missing.
NormalizeTextCell(cell) ==
    IF cell.dtype = "na" THEN NA
    ELSE Cell("string", StrTitle(StrCollapse(StrStrip(cell.text))))

\* _normalize_text
NormalizeText(column) == [i \in 1..Len(column) |-> NormalizeTextCell(column[i])]

\* ------------------------------------------------------------ configuration
\* cfg.column_map of the deployed configuration: the four required roles, no
\* date and no respondent-id column configured.
CfgColumnMap ==
    [service_col |-> "service", region_col |-> "region",
     satisfied_col |-> "satisfied", recommend_col |-> "recommend",
     date_col |-> None, respondent_id_col |-> None]

\* What a file dropped into the inbox can hold: bytes no decoder accepts, a
\* table lacking the region column, a table with every required column.
FileContents ==
    { [readable |-> FALSE, columns |-> {}, rows |-> <<>>],
      [readable |-> TRUE, columns |-> {"service", "satisfied", "recommend"},
       rows |-> << [index |-> 0, data |->
                      [service |-> Cell("text", <<"P", "h", "o", "n", "e">>),
                       satisfied |-> Cell("text", <<"y", "e", "s">>),
                       recommend |-> Cell("text", <<"n", "o">>)]] >>],
      [readable |-> TRUE, columns |-> {"service", "region", "satisfied", "recommend"},
       rows |-> << [index |-> 0, data |->
                      [service |-> Cell("text", <<"P", "h", "o", "n", "e">>),
                       region |-> Cell("text", <<"N", "o", "r", "t", "h">>),
                       satisfied |-> Cell("text", <<"y", "e", "s">>),
                       recommend |-> Cell("text", <<"n", "o">>)]] >>] }

FileNames == 1..MaxFiles

\* ------------------------------------------------------------------ ingest
RECURSIVE Sorted(_)
Sorted(S) ==
    IF S = {} THEN <<>>
    ELSE LET m == CHOOSE x \in S : \A y \in S : x <= y
         IN <<m>> \o Sorted(S \ {m})

\* discover_inputs: the set of matching regular files, sorted.
DiscoverInputs(dir) == Sorted(DOMAIN dir)

\* -------------------------------------------------------------- processing
\* _read_any: the decoder raises on content it cannot parse.
ReadAny(path, dir) ==
    IF dir[path].readable
    THEN Ok([columns |-> dir[path].columns, rows |-> dir[path].rows])
    ELSE Raise("unreadable input")

\* Variant: the error names the first absent column only.
ValidateColumnsFirstMissing(d, c) ==
    LET required == <<c.service_col, c.region_col, c.satisfied_col, c.recommend_col>>
        Absent(x) == x \notin d.columns
        missing == SelectSeq(required, Absent)
    IN IF missing # <<>>
       THEN RaiseWith("Missing required columns",
                      [missing |-> <<missing[1]>>, available |-> d.columns])
       ELSE Ok(<<>>)

\* _validate_columns: KeyError when a required column is absent; its message
\* lists the absent required columns, in the order service, region,
\* satisfied, recommend, and the columns of the table.
ValidateColumns(d, c) ==
    LET required == <<c.service_col, c.region_col, c.satisfied_col, c.recommend_col>>
        Absent(x) == x \notin d.columns
        missing == SelectSeq(required, Absent)
    IN IF missing # <<>>
       THEN RaiseWith("Missing required columns",
                      [missing |-> missing, available |-> d.columns])
       ELSE Ok(<<>>)

\* df[col]
Column(d, col) == [i \in 1..Len(d.rows) |-> d.rows[i].data[col]]

\* df[col] = values
SetColumn(d, col, values) ==
    [d EXCEPT !.rows = [i \in 1..Len(d.rows) |->
                          [d.rows[i] EXCEPT !.data[col] = values[i]]]]

\* _normalize_yes_no: `pd.Series(pd.Na, ...)` is evaluated on every call and
\* pandas has no attribute Na (the missing-value singleton is pd.NA), so the
\* call raises AttributeError whatever the column holds.
NormalizeYesNo(column) == Raise("module 'pandas' has no attribute 'Na'")

\* clean_df: validation, the two text columns, then _normalize_yes_no on the
\* satisfied and the recommend column.  The row filter that follows reads
\* `.srt` of a Series (for `.str`), which raises AttributeError as well, so no
\* path through clean_df returns a table.
CleanDf(d, c) ==
    LET v == ValidateColumns(d, c)
    IN IF v.raised THEN v
       ELSE LET d1 == SetColumn(d, c.service_col, NormalizeText(Column(d, c.service_col)))
                d2 == SetColumn(d1, c.region_col, NormalizeText(Column(d1, c.region_col)))
                satisfied == NormalizeYesNo(Column(d2, c.satisfied_col))
            IN IF satisfied.raised THEN satisfied
               ELSE LET recommend == NormalizeYesNo(Column(d2, c.recommend_col))
                    IN IF recommend.raised THEN recommend
                       ELSE Raise("'Series' object has no attribute 'srt'")

\* Rows i and j agree on every column of subset.
SameKey(rows, i, j, subset) == \A col \in subset : rows[i].data[col] = rows[j].data[col]

RECURSIVE KeepRows(_, _, _)
KeepRows(rows, i, keep) ==
    IF i > Len(rows) THEN <<>>
    ELSE (IF i \in keep THEN <<rows[i]>> ELSE <<>>) \o KeepRows(rows, i + 1, keep)

RECURSIVE Reverse(_)
Reverse(seq) == IF seq = <<>> THEN <<>> ELSE Reverse(Tail(seq)) \o <<Head(seq)>>

\* Variant: keep="first".
DropDuplicatesKeepFirst(d, subset) ==
    [columns |-> d.columns,
     rows |-> KeepRows(d.rows, 1,
                 {i \in 1..Len(d.rows) :
                     ~\E j \in 1..(i - 1) : SameKey(d.rows, i, j, subset)})]

\* Variant: the reversed frame deduplicated with keep="first" and not turned
\* back into table order.
DropDuplicatesReversed(d, subset) ==
    [columns |-> d.columns,
     rows |-> Reverse(KeepRows(d.rows, 1,
                 {i \in 1..Len(d.rows) :
                     ~\E j \in (i + 1)..Len(d.rows) : SameKey(d.rows, i, j, subset)}))]

\* DataFrame.drop_duplicates(subset=subset, keep="last"): a row is dropped
\* when a later row agrees with it on subset; the others keep their order and
\* their index labels.
DropDuplicates(d, subset) ==
    [columns |-> d.columns,
     rows |-> KeepRows(d.rows, 1,
                 {i \in 1..Len(d.rows) :
                     ~\E j \in (i + 1)..Len(d.rows) : SameKey(d.rows, i, j, subset)})]

\* Variant: with a respondent id the key is the id alone, whatever the date
\* column.
DedupeDfIdAlone(d, c) ==
    IF c.respondent_id_col # None /\ c.respondent_id_col \in d.columns
    THEN DropDuplicates(d, {c.respondent_id_col})
    ELSE LET subset == {c.service_col, c.region_col, c.satisfied_col, c.recommend_col}
         IN IF c.date_col # None /\ c.date_col \in d.columns
            THEN DropDuplicates(d, {c.date_col} \cup subset)
            ELSE DropDuplicates(d, subset)

\* dedupe_df
DedupeDf(d, c) ==
    IF c.respondent_id_col # None /\ c.respondent_id_col \in d.columns
    THEN IF c.date_col # None /\ c.date_col \in d.columns
         THEN DropDuplicates(d, {c.respondent_id_col, c.date_col})
         ELSE DropDuplicates(d, {c.respondent_id_col})
    ELSE LET subset == {c.service_col, c.region_col, c.satisfied_col, c.recommend_col}
         IN IF c.date_col # None /\ c.date_col \in d.columns
            THEN DropDuplicates(d, {c.date_col} \cup subset)
            ELSE DropDuplicates(d, subset)

\* pd.concat(frames, ignore_index=True): the rows of the frames one after
\* the other under fresh index labels 0..n-1, over the union of the columns.
RECURSIVE ConcatRows(_)
ConcatRows(frames) ==
    IF frames = <<>> THEN <<>> ELSE Head(frames).rows \o ConcatRows(Tail(frames))

Concat(frames) ==
    LET rows == ConcatRows(frames)
    IN [columns |-> UNION {frames[i].columns : i \in 1..Len(frames)},
        rows |-> [i \in 1..Len(rows) |-> [index |-> i - 1, data |-> rows[i].data]]]

\* process_files: the loop over paths; the first exception leaves the loop.
RECURSIVE ProcessLoop(_, _, _, _, _, _)
ProcessLoop(paths, i, dir, c, cleaned_frames, summaries) ==
    IF i > Len(paths)
    THEN Ok([cleaned_frames |-> cleaned_frames, summaries |-> summaries])
    ELSE LET raw == ReadAny(paths[i], dir)
         IN IF raw.raised THEN raw
            ELSE LET cleaned == CleanDf(raw.value, c)
                 IN IF cleaned.raised THEN cleaned
                    ELSE LET deduped == DedupeDf(cleaned.value, c)
                         IN ProcessLoop(paths, i + 1, dir, c,
                               Append(cleaned_frames, deduped),
                               Append(summaries,
                                  [filename |-> paths[i],
                                   raw_rows |-> Len(raw.value.rows),
                                   raw_cols |-> Cardinality(raw.value.columns),
                                   clean_rows |-> Len(deduped.rows),
                                   clean_cols |-> Cardinality(deduped.columns)]))

\* Variant: each file in its own try block, a failing file is skipped.
ProcessFilesSkipFailed(paths, dir, c) ==
    Ok([combined |-> EmptyTable,
        file_summaries |->
           SelectSeq([i \in 1..Len(paths) |->
                        [filename |-> paths[i],
                         failed |-> ProcessLoop(<<paths[i]>>, 1, dir, c, <<>>, <<>>).raised]],
                     LAMBDA x : ~x.failed)])

\* process_files: the loop, the concatenation and the dedupe across files.
ProcessFiles(paths, dir, c) ==
    LET loop == ProcessLoop(paths, 1, dir, c, <<>>, <<>>)
    IN IF loop.raised THEN loop
       ELSE LET combined == IF loop.value.cleaned_frames # <<>>
                            THEN Concat(loop.value.cleaned_frames)
                            ELSE EmptyTable
            IN Ok([combined |-> IF combined.rows # <<>>
                                THEN DedupeDf(combined, c) ELSE combined,
                   file_summaries |-> loop.value.summaries])

\* ----------------------------------------------------------------- monitor
\* The line write_health_file formats (without its trailing newline).
HealthLine(ts, ok, message) ==
    ToString(ts) \o " | " \o (IF ok THEN "OK" ELSE "FAIL") \o " | " \o message

\* Variant: the file is opened for appending.
WriteHealthFileAppend(old, ts, ok, message) ==
    Append(old, HealthLine(ts, ok, message))

\* write_health_file: path.write_text replaces the content of health.txt.
WriteHealthFile(old, ts, ok, message) == <<HealthLine(ts, ok, message)>>

RECURSIVE JoinLines(_)
JoinLines(lines) ==
    IF Len(lines) = 1 THEN lines[1]
    ELSE lines[1] \o "\n" \o JoinLines(Tail(lines))

\* read_health: the stripped text of health.txt, or a hint when it is absent.
ReadHealth(h) ==
    IF h = <<>> THEN "No health file found yet. Run: weekly_report run"
    ELSE JoinLines(h)

\* ---------------------------------------------------------------- pipeline
NoOutcome ==
    [ok |-> FALSE, status |-> "none", message |-> "", inputs_found |-> 0,
     inputs_processed |-> 0, health_file |-> ""]

\* Variant: the early exit reports the ordinary success status.
NoInputsOutcomeAsOk ==
    [ok |-> TRUE, status |-> "ok",
     message |-> "No input files found. Nothing to do.",
     inputs_found |-> 0, inputs_processed |-> 0, health_file |-> HEALTH_FILENAME]

\* The dict run_pipeline returns when discovery finds nothing.
NoInputsOutcome ==
    [ok |-> TRUE, status |-> "no_inputs",
     message |-> "No input files found. Nothing to do.",
     inputs_found |-> 0, inputs_processed |-> 0, health_file |-> HEALTH_FILENAME]

\* Variant: the fatal branch counts the discovered files as processed.
FatalOutcomeCountsInputs(found, e) ==
    [ok |-> FALSE, status |-> "fatal", message |-> "Fatal process error: " \o e,
     inputs_found |-> Len(found), inputs_processed |-> Len(found),
     health_file |-> HEALTH_FILENAME]

\* The dict run_pipeline returns from its `except Exception as e` branch.
FatalOutcome(found, e) ==
    [ok |-> FALSE, status |-> "fatal", message |-> "Fatal process error: " \o e,
     inputs_found |-> Len(found), inputs_processed |-> 0,
     health_file |-> HEALTH_FILENAME]

EmptyDir == [n \in {} |-> [readable |-> FALSE, columns |-> {}, rows |-> <<>>]]

InitFs ==
    /\ inbox = EmptyDir
    /\ processed_dir = EmptyDir
    /\ reports = {}
    /\ health = <<>>
    /\ sent = 0
    /\ now = 0

InitRun ==
    /\ pc = "idle"
    /\ entry = ""
    /\ dry_run = FALSE
    /\ email_fails = FALSE
    /\ move_fails = {}
    /\ files = <<>>
    /\ caught = ""
    /\ outcome = NoOutcome
    /\ exit_code = EXIT_OK
    /\ stdout = ""

InitDd ==
    /\ df = EmptyTable
    /\ cm = CfgColumnMap
    /\ df_prev = EmptyTable
    /\ calls = 0
    /\ series = <<>>
    /\ ret = Ok(<<>>)
    /\ args = <<>>

Init == InitFs /\ InitRun /\ InitDd

\* The previous process is gone: its locals with it.
FreshLocals ==
    /\ move_fails' = {}
    /\ files' = <<>>
    /\ caught' = ""
    /\ outcome' = NoOutcome
    /\ exit_code' = EXIT_OK
    /\ stdout' = ""

\* A survey export is dropped into the inbox between two invocations.
Arrive ==
    /\ pc \in {"idle", "exited"}
    /\ \E n \in FileNames \ DOMAIN inbox, c \in FileContents :
          inbox' = [x \in DOMAIN inbox \cup {n} |-> IF x = n THEN c ELSE inbox[x]]
    /\ pc' = "idle"
    /\ entry' = ""
    /\ dry_run' = FALSE
    /\ email_fails' = FALSE
    /\ FreshLocals
    /\ UNCHANGED <<processed_dir, reports, health, sent, now, dd_vars>>

\* The operator takes a file back out of the inbox.
Remove ==
    /\ pc \in {"idle", "exited"}
    /\ \E n \in DOMAIN inbox :
          inbox' = [x \in DOMAIN inbox \ {n} |-> inbox[x]]
    /\ pc' = "idle"
    /\ entry' = ""
    /\ dry_run' = FALSE
    /\ email_fails' = FALSE
    /\ FreshLocals
    /\ UNCHANGED <<processed_dir, reports, health, sent, now, dd_vars>>

\* An entry point parses its arguments, loads the configuration and calls
\* run_pipeline(cfg, dry_run), which starts with cfg.ensure_dirs().
StartRun(e, d) ==
    /\ pc \in {"idle", "exited"}
    /\ now < MaxRuns
    /\ now' = now + 1
    /\ entry' = e
    /\ FreshLocals
    /\ dry_run' = d
    /\ \E ef \in BOOLEAN : email_fails' = ef
    /\ pc' = "discover"
    /\ UNCHANGED <<inbox, processed_dir, reports, health, sent, dd_vars>>

\* python -m weekly_report.cli run [--dry-run]
CliRun == \E d \in BOOLEAN : StartRun("cli", d)

\* python run_weekly_report.py [--dry-run]
ScriptRun == \E d \in BOOLEAN : StartRun("script", d)

\* run_pipeline: files = discover_inputs(cfg.inbox_dir, cfg.input_globs)
Discover ==
    /\ pc = "discover"
    /\ files' = DiscoverInputs(inbox)
    /\ \E mf \in {{}} \cup {{f} : f \in DOMAIN inbox} : move_fails' = mf
    /\ pc' = "discovered"
    /\ UNCHANGED <<fs_vars, entry, dry_run, email_fails, caught, outcome,
                   exit_code, stdout, dd_vars>>

\* run_pipeline: `if not files:` writes the health record and returns.
NoInputs ==
    /\ pc = "discovered"
    /\ files = <<>>
    /\ health' = WriteHealthFile(health, now, TRUE,
                                 "No input files found. Nothing to do.")
    /\ outcome' = NoInputsOutcome
    /\ pc' = "returned"
    /\ UNCHANGED <<inbox, processed_dir, reports, sent, now, entry, dry_run,
                   email_fails, move_fails, files, caught, exit_code, stdout,
                   dd_vars>>

\* run_pipeline: the processing stage inside its try block.  Control passes
\* the stage only when process_files returns.
ProcessStage ==
    /\ pc = "discovered"
    /\ files # <<>>
    /\ LET r == ProcessFiles(files, inbox, CfgColumnMap)
       IN IF r.raised
          THEN /\ caught' = r.exc
               /\ health' = WriteHealthFile(health, now, FALSE,
                                            "Fatal process error: " \o r.exc)
               /\ outcome' = FatalOutcome(files, r.exc)
               /\ pc' = "returned"
          ELSE /\ pc' = "move_inputs"
               /\ UNCHANGED <<caught, health, outcome>>
    /\ UNCHANGED <<inbox, processed_dir, reports, sent, now, entry, dry_run,
                   email_fails, move_fails, files, exit_code, stdout, dd_vars>>

\* cli.main, command "run": print the message, exit status from result["ok"].
CliExit ==
    /\ pc = "returned"
    /\ entry = "cli"
    /\ stdout' = outcome.message
    /\ exit_code' = IF outcome.ok THEN EXIT_OK ELSE EXIT_PIPELINE_FAILED
    /\ pc' = "exited"
    /\ UNCHANGED <<fs_vars, entry, dry_run, email_fails, move_fails, files,
                   caught, outcome, dd_vars>>

\* run_weekly_report.main: logs the returned dict and `return 0`.
ScriptExit ==
    /\ pc = "returned"
    /\ entry = "script"
    /\ exit_code' = 0
    /\ pc' = "exited"
    /\ UNCHANGED <<fs_vars, entry, dry_run, email_fails, move_fails, files,
                   caught, outcome, stdout, dd_vars>>

\* cli.main, command "status": print(read_health(cfg.output_dir)).
CliStatus ==
    /\ pc \in {"idle", "exited"}
    /\ entry # "status"
    /\ entry' = "status"
    /\ dry_run' = FALSE
    /\ email_fails' = FALSE
    /\ move_fails' = {}
    /\ files' = <<>>
    /\ caught' = ""
    /\ outcome' = NoOutcome
    /\ exit_code' = EXIT_OK
    /\ stdout' = ReadHealth(health)
    /\ pc' = "exited"
    /\ UNCHANGED <<fs_vars, dd_vars>>

Next ==
    \/ Arrive
    \/ Remove
    \/ CliRun
    \/ ScriptRun
    \/ Discover
    \/ NoInputs
    \/ ProcessStage
    \/ CliExit
    \/ ScriptExit
    \/ CliStatus

Spec == Init /\ [][Next]_vars

\* ======================================================================
\* dedupe_df on bounded tables (SpecDedupe)
\* ======================================================================
\* A table is its column names and its rows in table order; a row carries its
\* index label and one value per column (values written as text).
RequiredColumns == {"service", "region", "satisfied", "recommend"}
OptionalColumns == {"date", "respondent_id"}

ColumnValues(col) ==
    CASE col = "service" -> {"Laptop", "Phone"}
      [] col = "region" -> {"North"}
      [] col = "satisfied" -> {"True"}
      [] col = "recommend" -> {"True"}
      [] col = "date" -> {"2024-01-01", "2024-01-08"}
      [] col = "respondent_id" -> {"r1", "r2"}

\* Every row over the given columns.
RowData(columns) ==
    { [col \in columns |->
          CASE col = "service" -> sv
            [] col = "date" -> dv
            [] col = "respondent_id" -> rv
            [] OTHER -> CHOOSE v \in ColumnValues(col) : TRUE] :
      sv \in ColumnValues("service"), dv \in ColumnValues("date"),
      rv \in ColumnValues("respondent_id") }

\* Tables as a loader hands them over: index labels 0..n-1.
TablesOver(columns) ==
    UNION { { [columns |-> columns,
               rows |-> [i \in 1..n |-> [index |-> i - 1, data |-> d[i]]]] :
              d \in [1..n -> RowData(columns)] } : n \in 0..MaxRows }

Tables == UNION { TablesOver(RequiredColumns \cup opt) : opt \in SUBSET OptionalColumns }

ColumnMaps ==
    { [service_col |-> "service", region_col |-> "region",
       satisfied_col |-> "satisfied", recommend_col |-> "recommend",
       date_col |-> dc, respondent_id_col |-> rc] :
      dc \in {None, "date"}, rc \in {None, "respondent_id"} }

InitDedupe ==
    /\ InitFs
    /\ InitRun
    /\ df \in Tables
    /\ cm \in ColumnMaps
    /\ df_prev = EmptyTable
    /\ calls = 0
    /\ series = <<>>
    /\ ret = Ok(<<>>)
    /\ args = <<>>

\* df = dedupe_df(df, cm), as process_files applies it per file and again to
\* the concatenated batch.
CallDedupe ==
    /\ calls < 2
    /\ df_prev' = df
    /\ df' = DedupeDf(df, cm)
    /\ calls' = calls + 1
    /\ UNCHANGED <<fs_vars, run_vars, cm, series, ret, args>>

NextDedupe == CallDedupe

SpecDedupe == InitDedupe /\ [][NextDedupe]_vars

\* ======================================================================
\* _normalize_yes_no on bounded columns (SpecYesNo)
\* ======================================================================
\* The cells a satisfied / recommend column can hold.
FlagCells ==
    { Cell("text", <<"y", "e", "s">>), Cell("text", <<" ", "Y", "e", "s", " ">>),
      Cell("text", <<"Y">>), Cell("text", <<"T", "R", "U", "E">>),
      Cell("text", <<"1">>), Cell("text", <<"1", ".", "0">>),
      Cell("text", <<"m", "a", "y", "b", "e">>),
      Cell("text", <<"n", "o">>), Cell("text", <<"N">>),
      Cell("text", <<"f", "a", "l", "s", "e">>),
      Cell("text", <<"0">>), Cell("text", <<"0", ".", "0">>),
      Cell("int", <<"1">>), Cell("int", <<"0">>), Cell("int", <<"2">>),
      Cell("float", <<"1", ".", "0">>), Cell("float", <<"0", ".", "0">>),
      NA }

\* satisfied = ["yes", "1", "1.0", "maybe"]
ExampleSeries ==
    << Cell("text", <<"y", "e", "s">>), Cell("text", <<"1">>),
       Cell("text", <<"1", ".", "0">>), Cell("text", <<"m", "a", "y", "b", "e">>) >>

SeriesInputs ==
    UNION { [1..n -> FlagCells] : n \in 0..MaxCells } \cup {ExampleSeries}

InitYesNo ==
    /\ InitFs
    /\ InitRun
    /\ df = EmptyTable
    /\ cm = CfgColumnMap
    /\ df_prev = EmptyTable
    /\ calls = 0
    /\ series \in SeriesInputs
    /\ ret = Ok(<<>>)
    /\ args = <<>>

\* out = _normalize_yes_no(series)
CallNormalizeYesNo ==
    /\ calls = 0
    /\ ret' = NormalizeYesNo(series)
    /\ calls' = 1
    /\ UNCHANGED <<fs_vars, run_vars, df, cm, df_prev, series, args>>

NextYesNo == CallNormalizeYesNo

SpecYesNo == InitYesNo /\ [][NextYesNo]_vars

\* ======================================================================
\* clean_df on bounded raw tables (SpecClean)
\* ======================================================================
\* The cells a raw column can hold.
RawValues(col) ==
    CASE col = "service" ->
           { Cell("text", <<" ", "l", "a", "p", " ", " ", "T", "O", "P", " ">>),
             Cell("text", <<" ">>) }
      [] col = "region" -> { Cell("text", <<"n", "o", "r", "t", "h">>), NA }
      [] col = "satisfied" ->
           { Cell("text", <<"Y", "E", "S">>), Cell("text", <<"m", "a", "y", "b", "e">>) }
      [] col = "recommend" -> { Cell("int", <<"0">>), NA }

\* Every raw row over the given columns.
RawRows(columns) ==
    { [col \in columns |->
          CASE col = "service" -> sv
            [] col = "region" -> rg
            [] col = "satisfied" -> sa
            [] col = "recommend" -> rc] :
      sv \in RawValues("service"), rg \in RawValues("region"),
      sa \in RawValues("satisfied"), rc \in RawValues("recommend") }

\* Raw tables over any subset of the required columns, index labels 0..n-1.
RawTables ==
    UNION { UNION { { [columns |-> columns,
                       rows |-> [i \in 1..n |-> [index |-> i - 1, data |-> d[i]]]] :
                      d \in [1..n -> RawRows(columns)] }
                    : n \in 0..MaxRawRows }
            : columns \in SUBSET RequiredColumns }

InitClean ==
    /\ InitFs
    /\ InitRun
    /\ df \in RawTables
    /\ cm = CfgColumnMap
    /\ df_prev = EmptyTable
    /\ calls = 0
    /\ series = <<>>
    /\ ret = Ok(<<>>)
    /\ args = <<>>

\* cleaned = clean_df(raw, cm); the argument is validated, then copied, and
\* stays as it was.
CallCleanDf ==
    /\ calls = 0
    /\ ret' = CleanDf(df, cm)
    /\ df_prev' = df
    /\ calls' = 1
    /\ UNCHANGED <<fs_vars, run_vars, df, cm, series, args>>

NextClean == CallCleanDf

SpecClean == InitClean /\ [][NextClean]_vars

\* ======================================================================
\* compute_kpis and kpi_to_dict on bounded batch tables (SpecKpis)
\* ======================================================================
\* The fields of the KPIResult dataclass, in declaration order.
KPIFields ==
    <<"total_reponses", "satisfaction_rate", "recommendation_rate",
      "most_used_service", "top_region">>

\* KPIResult(a, b, c, d, e): positional arguments bind to the fields in order.
KPIResultPositional(values) ==
    IF Len(values) = Len(KPIFields)
    THEN Ok([f \in {KPIFields[i] : i \in 1..Len(KPIFields)} |->
                values[CHOOSE i \in 1..Len(KPIFields) : KPIFields[i] = f]])
    ELSE Raise("TypeError: KPIResult.__init__() missing required arguments")

\* KPIResult(name=value, ...): a keyword that is not a field is a TypeError.
KPIResultKeywords(kwargs) ==
    IF DOMAIN kwargs = {KPIFields[i] : i \in 1..Len(KPIFields)}
    THEN Ok(kwargs)
    ELSE Raise("TypeError: KPIResult.__init__() got an unexpected keyword argument")

\* obj.name
GetAttr(obj, name) ==
    IF name \in DOMAIN obj THEN Ok(obj[name])
    ELSE Raise("AttributeError: 'KPIResult' object has no attribute '" \o name \o "'")

\* Number of rows of d whose column col holds v.
CountOf(d, col, v) == Cardinality({i \in 1..Len(d.rows) : d.rows[i].data[col] = v})

\* Series.mean() of a boolean column: true values over resolved values, as
\* the pair <<numerator, denominator>>.
BooleanMean(d, col) ==
    << CountOf(d, col, "True"), CountOf(d, col, "True") + CountOf(d, col, "False") >>

\* Series.value_counts().idxmax(): a value with the highest count; among
\* equally frequent values the one met first.
ValueCountsIdxMax(d, col) ==
    LET first == CHOOSE i \in 1..Len(d.rows) :
                    /\ \A j \in 1..Len(d.rows) :
                          CountOf(d, col, d.rows[j].data[col])
                             <= CountOf(d, col, d.rows[i].data[col])
                    /\ \A j \in 1..(i - 1) :
                          CountOf(d, col, d.rows[j].data[col])
                             < CountOf(d, col, d.rows[i].data[col])
    IN d.rows[first].data[col]

\* compute_kpis
ComputeKpis(d, c) ==
    LET total == Len(d.rows)
    IN IF total = 0
       THEN KPIResultPositional(<<0, None, None, None, None>>)
       ELSE KPIResultKeywords(
               [total_responses |-> total,
                satisfaction_rate |-> BooleanMean(d, c.satisfied_col),
                recommmendation_rate |-> BooleanMean(d, c.recommend_col),
                most_used_service |-> ValueCountsIdxMax(d, c.service_col),
                top_region |-> ValueCountsIdxMax(d, c.region_col)])

\* The keys of the dict kpi_to_dict builds, each read from the attribute of
\* the same name.
KpiDictKeys ==
    <<"total_responses", "satisfaction_rate", "recommendation_rate",
      "most_used_service", "top_region">>

\* kpi_to_dict: the attributes are read in order; the first one the object
\* lacks raises AttributeError.
KpiToDict(k) ==
    LET missing == {i \in 1..Len(KpiDictKeys) : GetAttr(k, KpiDictKeys[i]).raised}
    IN IF missing # {}
       THEN GetAttr(k, KpiDictKeys[CHOOSE i \in missing : \A j \in missing : i <= j])
       ELSE Ok([key \in {KpiDictKeys[i] : i \in 1..Len(KpiDictKeys)} |-> k[key]])

\* The cells a cleaned batch column can hold.
KpiValues(col) ==
    CASE col = "service" -> {"Laptop", "Phone"}
      [] col = "region" -> {"North", "South"}
      [] col = "satisfied" -> {"True", "False"}
      [] col = "recommend" -> {"True", "False"}

\* Cleaned batch tables, index labels 0..n-1.
KpiTables ==
    UNION { { [columns |-> RequiredColumns,
               rows |-> [i \in 1..n |-> [index |-> i - 1, data |-> d[i]]]] :
              d \in [1..n -> { [service |-> sv, region |-> rg,
                                satisfied |-> sa, recommend |-> rc] :
                               sv \in KpiValues("service"), rg \in KpiValues("region"),
                               sa \in KpiValues("satisfied"),
                               rc \in KpiValues("recommend") }] }
            : n \in 0..MaxKpiRows }

InitKpis ==
    /\ InitFs
    /\ InitRun
    /\ df \in KpiTables
    /\ cm = CfgColumnMap
    /\ df_prev = EmptyTable
    /\ calls = 0
    /\ series = <<>>
    /\ ret = Ok(<<>>)
    /\ args = <<>>

\* kpis = compute_kpis(pr.combined, cfg.column_map)
CallComputeKpis ==
    /\ calls = 0
    /\ ret' = ComputeKpis(df, cm)
    /\ calls' = 1
    /\ UNCHANGED <<fs_vars, run_vars, df, cm, df_prev, series, args>>

\* kpi_to_dict(kpis), as write_reports calls it on the computed result.
CallKpiToDict ==
    /\ calls = 1
    /\ ~ret.raised
    /\ ret' = KpiToDict(ret.value)
    /\ calls' = 2
    /\ UNCHANGED <<fs_vars, run_vars, df, cm, df_prev, series, args>>

NextKpis == CallComputeKpis \/ CallKpiToDict

SpecKpis == InitKpis /\ [][NextKpis]_vars

\* ======================================================================
\* write_reports under every switch combination (SpecReports)
\* ======================================================================
\* _stamp: strftime("%Y%m%d_ %H%M%S") of a clock that reads t seconds past
\* midnight of 2024-01-01 (t < 10); the format holds a space after the
\* underscore.
Stamp(t) == "20240101_ 00000" \o ToString(t)

\* The three paths write_reports builds.
FileSummaryPath(basename, stamp) == basename \o "_file_summary_" \o stamp \o ".csv"
CleanedCsvPath(basename, stamp) == basename \o "_cleaned_" \o stamp \o ".csv"
KpiJsonPath(basename, stamp) == basename \o "_kpis_" \o stamp \o ".json"

\* write_reports: the value returned or the exception raised, and the files
\* created on the way.  json.dumps(kpi_to_dict(kpis)) is evaluated before
\* write_text opens the KPI file.
WriteReports(basename, kpis, write_cleaned_csv, write_kpi_json, t) ==
    LET stamp == Stamp(t)
        summary == {FileSummaryPath(basename, stamp)}
        cleaned == IF write_cleaned_csv THEN {CleanedCsvPath(basename, stamp)} ELSE {}
        dumped == KpiToDict(kpis)
    IN IF write_kpi_json /\ dumped.raised
       THEN [result |-> dumped, written |-> summary \cup cleaned]
       ELSE [result |->
                Ok([run_stamp |-> stamp,
                    cleaned_csv |-> IF write_cleaned_csv
                                    THEN CleanedCsvPath(basename, stamp) ELSE None,
                    kpi_json |-> IF write_kpi_json
                                 THEN KpiJsonPath(basename, stamp) ELSE None,
                    file_summary_csv |-> FileSummaryPath(basename, stamp)]),
             written |-> summary \cup cleaned
                           \cup (IF write_kpi_json
                                 THEN {KpiJsonPath(basename, stamp)} ELSE {})]

\* The KPIResult objects handed to write_reports.
KpiObjects ==
    { KPIResultPositional(<<0, None, None, None, None>>).value,
      KPIResultPositional(<<2, <<1, 2>>, <<2, 2>>, "Laptop", "North">>).value }

ReportArgs ==
    [basename : {"weekly_report", "survey"}, kpis : KpiObjects,
     write_cleaned_csv : BOOLEAN, write_kpi_json : BOOLEAN]

InitReports ==
    /\ inbox = EmptyDir
    /\ processed_dir = EmptyDir
    /\ reports = {}
    /\ health = <<>>
    /\ sent = 0
    /\ now \in 0..MaxClock
    /\ InitRun
    /\ df = EmptyTable
    /\ cm = CfgColumnMap
    /\ df_prev = EmptyTable
    /\ calls = 0
    /\ series = <<>>
    /\ ret = Ok(<<>>)
    /\ args \in ReportArgs

\* artifacts = write_reports(cfg.output_dir, ...)
CallWriteReports ==
    /\ calls = 0
    /\ LET w == WriteReports(args.basename, args.kpis, args.write_cleaned_csv,
                             args.write_kpi_json, now)
       IN /\ ret' = w.result
          /\ reports' = reports \cup w.written
    /\ calls' = 1
    /\ UNCHANGED <<inbox, processed_dir, health, sent, now, run_vars,
                   df, cm, df_prev, series, args>>

NextReports == CallWriteReports

SpecReports == InitReports /\ [][NextReports]_vars

\* ======================================================================
\* process_files on bounded sets of input files (SpecProcess)
\* ======================================================================
\* One survey answer as a loader returns it.
SurveyRow(index, service, respondent) ==
    [index |-> index,
     data |-> [service |-> Cell("text", service),
               region |-> Cell("text", <<"N", "o", "r", "t", "h">>),
               satisfied |-> Cell("text", <<"y", "e", "s">>),
               recommend |-> Cell("text", <<"n", "o">>),
               respondent_id |-> Cell("text", respondent)]]

\* What an input file can hold: the contents of FileContents, a table with no
\* rows, and two tables that share respondent r1.
ProcessContents ==
    FileContents \cup
    { [readable |-> TRUE, columns |-> RequiredColumns \cup {"respondent_id"},
       rows |-> <<>>],
      [readable |-> TRUE, columns |-> RequiredColumns \cup {"respondent_id"},
       rows |-> << SurveyRow(0, <<"P", "h", "o", "n", "e">>, <<"r", "1">>),
                   SurveyRow(1, <<"L", "a", "p", "t", "o", "p">>, <<"r", "2">>) >>],
      [readable |-> TRUE, columns |-> RequiredColumns \cup {"respondent_id"},
       rows |-> << SurveyRow(0, <<"L", "a", "p", "t", "o", "p">>, <<"r", "1">>) >>] }

InitProcess ==
    /\ inbox \in UNION { [S -> ProcessContents] : S \in SUBSET FileNames }
    /\ processed_dir = EmptyDir
    /\ reports = {}
    /\ health = <<>>
    /\ sent = 0
    /\ now = 0
    /\ InitRun
    /\ df = EmptyTable
    /\ cm \in {CfgColumnMap, [CfgColumnMap EXCEPT !.respondent_id_col = "respondent_id"]}
    /\ df_prev = EmptyTable
    /\ calls = 0
    /\ series = <<>>
    /\ ret = Ok(<<>>)
    /\ args = <<>>

\* pr = process_files(files, cfg.column_map) on the discovered files.
CallProcessFiles ==
    /\ calls = 0
    /\ ret' = ProcessFiles(DiscoverInputs(inbox), inbox, cm)
    /\ calls' = 1
    /\ UNCHANGED <<fs_vars, run_vars, df, cm, df_prev, series, args>>

NextProcess == CallProcessFiles

SpecProcess == InitProcess /\ [][NextProcess]_vars

\* ======================================================================
\* _move_file and send_report_email called on their own (SpecRelocate)
\* ======================================================================
\* A file name is its stem and its suffix; a directory maps the names of its
\* files to their content, and the content of a file is the number of the
\* arrival that brought it.
PathName(stem, suffix) == [stem |-> stem, suffix |-> suffix]

Stems == {"a", "b"}

\* dest_dir / f"{src.stem}__dup{src.suffix}"
DupName(src) == PathName(src.stem \o "__dup", src.suffix)

\* Variant: the dry_run argument is not consulted.
MoveFileAlways(src, src_dir, dest_dir, dry) ==
    LET dest == IF src \in DOMAIN dest_dir THEN DupName(src) ELSE src
    IN [result |-> Ok(dest),
        src_dir |-> [n \in DOMAIN src_dir \ {src} |-> src_dir[n]],
        dest_dir |-> [n \in DOMAIN dest_dir \cup {dest} |->
                        IF n = dest THEN src_dir[src] ELSE dest_dir[n]]]

\* _move_file: the destination is the source's name, or the __dup name when
\* that name is taken; whether the __dup name is taken is not looked at.
\* shutil.move renames onto the destination and replaces a file that is there
\* (os.rename, or copy and unlink where rename refuses).
MoveFile(src, src_dir, dest_dir, dry) ==
    LET dest == IF src \in DOMAIN dest_dir THEN DupName(src) ELSE src
    IN IF dry
       THEN [result |-> Ok(dest), src_dir |-> src_dir, dest_dir |-> dest_dir]
       ELSE [result |-> Ok(dest),
             src_dir |-> [n \in DOMAIN src_dir \ {src} |-> src_dir[n]],
             dest_dir |-> [n \in DOMAIN dest_dir \cup {dest} |->
                             IF n = dest THEN src_dir[src] ELSE dest_dir[n]]]

\* send_report_email: the value returned or the exception raised, and the
\* number of messages transmitted afterwards.  The subject reads
\* kpis.total_responses before the dry-run test; server.send_message sits
\* inside the use_starttls branch.
SendReportEmail(enabled, env_set, kpis, dry, use_starttls, transmitted) ==
    IF ~enabled THEN [result |-> Ok(None), sent |-> transmitted]
    ELSE IF ~env_set
    THEN [result |-> Raise("Missing required environment vairable: REPORT_SMTP_USER"),
          sent |-> transmitted]
    ELSE IF GetAttr(kpis, "total_responses").raised
    THEN [result |-> GetAttr(kpis, "total_responses"), sent |-> transmitted]
    ELSE IF dry THEN [result |-> Ok(None), sent |-> transmitted]
    ELSE [result |-> Ok(None),
          sent |-> IF use_starttls THEN transmitted + 1 ELSE transmitted]

InitRelocate ==
    /\ InitFs
    /\ InitRun
    /\ df = EmptyTable
    /\ cm = CfgColumnMap
    /\ df_prev = EmptyTable
    /\ calls = 0
    /\ series = <<>>
    /\ ret = Ok(<<>>)
    /\ args = <<>>

\* A file arrives in the inbox under a name that is free there.
ArriveFile ==
    /\ now < MaxArrivals
    /\ \E stem \in Stems :
          LET name == PathName(stem, ".csv")
          IN /\ name \notin DOMAIN inbox
             /\ inbox' = [n \in DOMAIN inbox \cup {name} |->
                             IF n = name THEN now + 1 ELSE inbox[n]]
    /\ now' = now + 1
    /\ UNCHANGED <<processed_dir, reports, health, sent, run_vars, dd_vars>>

\* _move_file(src, cfg.processed_dir, dry_run=dry)
CallMoveFile ==
    /\ calls < MaxCalls
    /\ \E src \in DOMAIN inbox, dry \in BOOLEAN :
          LET m == MoveFile(src, inbox, processed_dir, dry)
          IN /\ args' = [op |-> "_move_file", dry_run |-> dry, src |-> src]
             /\ ret' = m.result
             /\ inbox' = m.src_dir
             /\ processed_dir' = m.dest_dir
    /\ calls' = calls + 1
    /\ UNCHANGED <<reports, health, sent, now, run_vars, df, cm, df_prev, series>>

\* send_report_email(cfg.email, kpis, attachments, dry_run=dry)
CallSendReportEmail ==
    /\ calls < MaxCalls
    /\ \E enabled \in BOOLEAN, env_set \in BOOLEAN, kpis \in KpiObjects,
          dry \in BOOLEAN, use_starttls \in BOOLEAN :
          LET m == SendReportEmail(enabled, env_set, kpis, dry, use_starttls, sent)
          IN /\ args' = [op |-> "send_report_email", dry_run |-> dry,
                         enabled |-> enabled]
             /\ ret' = m.result
             /\ sent' = m.sent
    /\ calls' = calls + 1
    /\ UNCHANGED <<inbox, processed_dir, reports, health, now, run_vars,
                   df, cm, df_prev, series>>

NextRelocate == ArriveFile \/ CallMoveFile \/ CallSendReportEmail

SpecRelocate == InitRelocate /\ [][NextRelocate]_vars

\* ======================================================================
\* Properties of the orchestrator (checked under Spec)
\* ======================================================================
Returned == pc \in {"returned", "exited"} /\ entry \in {"cli", "script"}

\* A file the loader can decode and that carries the four required columns.
WellFormed(c) ==
    /\ c.readable
    /\ {"service", "region", "satisfied", "recommend"} \subseteq c.columns

AllWellFormed == files # <<>> /\ \A i \in 1..Len(files) : WellFormed(inbox[files[i]])

ProcessErrors ==
    {"unreadable input", "Missing required columns",
     "module 'pandas' has no attribute 'Na'"}

HealthMessages ==
    {"No input files found. Nothing to do."}
        \cup {"Fatal process error: " \o e : e \in ProcessErrors}

EmailErrors ==
    {"Missing required environment vairable: REPORT_SMTP_USER",
     "'KPIResult' object has no attribute 'total_responses'"}

\* The processing stage never completes: clean_df raises on every table that
\* passes validation, so no run gets to relocate inputs, compute KPIs, write
\* reports or notify (pipeline.py lines 102-170).
ProcessStageNeverCompletes == pc # "move_inputs"

\* C1: a run whose process stage raised ends fatal: the health record is the
\* FAIL line with the error message, the outcome has ok = false, status =
\* fatal, inputs_found = number of discovered files, inputs_processed = 0.
C1_ProcessFailureIsFatal ==
    (Returned /\ caught # "") =>
        /\ health = <<HealthLine(now, FALSE, "Fatal process error: " \o caught)>>
        /\ outcome.ok = FALSE
        /\ outcome.status = "fatal"
        /\ outcome.message = "Fatal process error: " \o caught
        /\ outcome.inputs_found = Len(files)
        /\ outcome.inputs_processed = 0

\* A run over two files whose first file lacks a required column has returned.
C1_Witness ==
    /\ pc = "returned"
    /\ Len(files) = 2
    /\ caught = "Missing required columns"

\* C2: every run whose discovered files are all decodable and carry the
\* required columns (the process stage has nothing to fail on) returns
\* ok = true, status = ok, whatever fails while moving or notifying.
C2_OnlyProcessStageIsFatal ==
    (Returned /\ AllWellFormed) => (outcome.ok /\ outcome.status = "ok")

\* C3: when discovery returns no file the run writes the OK health record
\* "No input files found. Nothing to do.", returns ok = true, status =
\* no_inputs with zero counts, and processes, moves, writes and sends nothing.
C3_NoInputs ==
    (Returned /\ files = <<>>) =>
        /\ health = <<HealthLine(now, TRUE, "No input files found. Nothing to do.")>>
        /\ outcome.ok = TRUE
        /\ outcome.status = "no_inputs"
        /\ outcome.message = "No input files found. Nothing to do."
        /\ outcome.inputs_found = 0
        /\ outcome.inputs_processed = 0
        /\ caught = ""
        /\ inbox = EmptyDir
        /\ processed_dir = EmptyDir
        /\ reports = {}
        /\ sent = 0

\* A second run found the inbox empty and has returned.
C3_Witness ==
    /\ pc = "returned"
    /\ now = 2
    /\ outcome.status = "no_inputs"

\* C4: in a run over well-formed inputs the outcome is ok = true, status = ok;
\* the health record is the FAIL line with the notification error when the
\* notification fails and the OK line "Run completed successfully." otherwise.
C4_EmailFailureOverwritesHealth ==
    (Returned /\ AllWellFormed) =>
        /\ outcome.ok
        /\ outcome.status = "ok"
        /\ IF email_fails
           THEN \E e \in EmailErrors :
                   health = <<HealthLine(now, FALSE, "Run OK but email failed: " \o e)>>
           ELSE health = <<HealthLine(now, TRUE, "Run completed successfully.")>>

\* C5: in a non-dry run over well-formed inputs every discovered file whose
\* move does not fail has left the inbox for the processed area, the status is
\* ok and inputs_processed counts exactly the files moved.
C5_MoveFailureIsIsolated ==
    (Returned /\ AllWellFormed /\ ~dry_run) =>
        /\ outcome.status = "ok"
        /\ \A i \in 1..Len(files) :
              files[i] \notin move_fails =>
                 (files[i] \notin DOMAIN inbox /\ files[i] \in DOMAIN processed_dir)
        /\ outcome.inputs_processed =
              Cardinality({i \in 1..Len(files) : files[i] \notin move_fails})
        /\ outcome.inputs_processed <= outcome.inputs_found

SomeFileBad == \E i \in 1..Len(files) : ~WellFormed(inbox[files[i]])

\* C6: no report exists unless the process stage went through every file; a
\* run with a file that fails to load or validate never gets past the process
\* stage: it ends fatal with no report written.
C6_NoReportBeforeFullLoad ==
    /\ reports # {} => (caught = "" /\ pc \notin {"idle", "discover", "discovered"})
    /\ (SomeFileBad /\ pc \notin {"idle", "discover", "discovered"}) =>
          /\ Returned
          /\ outcome.status = "fatal"
          /\ reports = {}

\* Three files, the third of which lacks a required column; the run returned.
C6_Witness ==
    /\ pc = "returned"
    /\ Len(files) = 3
    /\ WellFormed(inbox[files[1]])
    /\ WellFormed(inbox[files[2]])
    /\ inbox[files[3]].readable
    /\ ~WellFormed(inbox[files[3]])

C8_FailureExitsNonZero ==
    (pc = "exited" /\ entry \in {"cli", "script"} /\ ~outcome.ok) =>
        /\ exit_code # 0
        /\ outcome.message = "Fatal process error: " \o caught
        /\ health = <<HealthLine(now, FALSE, outcome.message)>>

\* ======================================================================
\* Properties of dedupe_df (checked under SpecDedupe)
\* ======================================================================
\* The identity key of a table under a column map.
IdentityKey(columns, c) ==
    LET has_id == c.respondent_id_col # None /\ c.respondent_id_col \in columns
        has_date == c.date_col # None /\ c.date_col \in columns
    IN IF has_id
       THEN {c.respondent_id_col} \cup (IF has_date THEN {c.date_col} ELSE {})
       ELSE {c.service_col, c.region_col, c.satisfied_col, c.recommend_col}
               \cup (IF has_date THEN {c.date_col} ELSE {})

KeyOf(row, key) == [col \in key |-> row.data[col]]

\* Positions of the rows of table d that are the last with their key.
LastPositions(d, key) ==
    {i \in 1..Len(d.rows) :
        \A j \in 1..Len(d.rows) :
            KeyOf(d.rows[j], key) = KeyOf(d.rows[i], key) => j <= i}

\* C9: after dedupe every identity key of the input has exactly one row in the
\* output, that row is (value for value) the last input row with the key, and
\* the surviving rows stand in their input order.
C9_LastOccurrenceWins ==
    calls = 1 =>
        LET key == IdentityKey(df_prev.columns, cm)
            last == Sorted(LastPositions(df_prev, key))
        IN /\ df.columns = df_prev.columns
           /\ \A i \in 1..Len(df_prev.rows) :
                 LET same == {j \in 1..Len(df.rows) :
                                KeyOf(df.rows[j], key) = KeyOf(df_prev.rows[i], key)}
                 IN /\ Cardinality(same) = 1
                    /\ \A j \in same :
                          \E l \in LastPositions(df_prev, key) :
                             /\ df.rows[j] = df_prev.rows[l]
                             /\ KeyOf(df_prev.rows[l], key) = KeyOf(df_prev.rows[i], key)
           /\ Len(df.rows) = Len(last)
           /\ \A j \in 1..Len(df.rows) : df.rows[j] = df_prev.rows[last[j]]

\* Three rows keyed by respondent id, the first and the third sharing the id
\* and differing in the service: the first is dropped, the third survives.
C9_Witness ==
    /\ calls = 1
    /\ cm.respondent_id_col = "respondent_id"
    /\ "respondent_id" \in df_prev.columns
    /\ Len(df_prev.rows) = 3
    /\ df_prev.rows[1].data["respondent_id"] = df_prev.rows[3].data["respondent_id"]
    /\ df_prev.rows[1].data["service"] # df_prev.rows[3].data["service"]
    /\ Len(df.rows) = 2
    /\ df.rows[2] = df_prev.rows[3]

\* C10: dedupe applied to an already deduped table returns that table: same
\* rows, same order, same values.
C10_DedupeIdempotent == calls = 2 => df = df_prev

\* The second call got a table from which the first call had dropped a row
\* (index labels 1, 2 of an input labelled 0, 1, 2).
C10_Witness ==
    /\ calls = 2
    /\ Len(df_prev.rows) = 2
    /\ df_prev.rows[1].index = 1
    /\ df_prev.rows[2].index = 2
    /\ df_prev.rows[1].data # df_prev.rows[2].data

ClaimYes == YES \cup { <<"1", ".", "0">> }
ClaimNo == NO \cup { <<"0", ".", "0">> }

\* The tri-state value the normalizer is to give a cell.
TriState(cell) ==
    LET t == StrLower(StrStrip(cell.text))
    IN IF cell.dtype = "na" THEN "unknown"
       ELSE IF t \in ClaimYes THEN "true"
       ELSE IF t \in ClaimNo THEN "false"
       ELSE "unknown"

\* C11: the normalizer returns, cell by cell, true for the yes-set (with
\* "1.0"), false for the no-set (with "0.0") and unknown otherwise, the same
\* for numeric and text columns; ["yes","1","1.0","maybe"] gives
\* [true, true, true, unknown].
C11_TriStateNormalizer ==
    calls = 1 =>
        /\ ~ret.raised
        /\ ret.value = [i \in 1..Len(series) |-> TriState(series[i])]
        /\ series = ExampleSeries => ret.value = <<"true", "true", "true", "unknown">>

\* ======================================================================
\* Properties of clean_df (checked under SpecClean)
\* ======================================================================
\* Row i of raw table d survives cleaning.
Survives(d, c, i) ==
    LET row == d.rows[i].data
        service == NormalizeTextCell(row[c.service_col])
        region == NormalizeTextCell(row[c.region_col])
    IN /\ service # NA /\ service.text # <<>>
       /\ region # NA /\ region.text # <<>>
       /\ TriState(row[c.satisfied_col]) # "unknown"
       /\ TriState(row[c.recommend_col]) # "unknown"

\* Row i of raw table d as cleaning leaves it.
CleanedRow(d, c, i) ==
    [d.rows[i] EXCEPT
        !.data = [col \in d.columns |->
                    IF col \in {c.service_col, c.region_col}
                    THEN NormalizeTextCell(d.rows[i].data[col])
                    ELSE IF col \in {c.satisfied_col, c.recommend_col}
                    THEN Cell("boolean", TriState(d.rows[i].data[col]))
                    ELSE d.rows[i].data[col]]]

\* C12: on a table with the four required columns clean returns exactly the
\* rows whose service and region are present and non-empty after
\* normalization and whose two flags resolve, in input order, with service
\* and region trimmed, whitespace-collapsed and title-cased.
C12_CleanKeepsValidRows ==
    (calls = 1 /\ RequiredColumns \subseteq df.columns) =>
        /\ ~ret.raised
        /\ ret.value.columns = df.columns
        /\ ret.value.rows =
             KeepRows([i \in 1..Len(df.rows) |-> CleanedRow(df, cm, i)], 1,
                      {i \in 1..Len(df.rows) : Survives(df, cm, i)})

\* C16: clean on a table lacking a required column raises the
\* missing-columns error, which lists exactly the absent required columns
\* and the columns of the table; nothing is transformed and the argument is
\* as it was.
C16_MissingColumnsRejected ==
    (calls = 1 /\ ~(RequiredColumns \subseteq df_prev.columns)) =>
        /\ ret.raised
        /\ ret.exc = "Missing required columns"
        /\ {ret.value.missing[i] : i \in 1..Len(ret.value.missing)}
              = RequiredColumns \ df_prev.columns
        /\ Len(ret.value.missing) = Cardinality(RequiredColumns \ df_prev.columns)
        /\ ret.value.available = df_prev.columns
        /\ df = df_prev

C16_Witness ==
    /\ calls = 1
    /\ df_prev.columns = {"service", "recommend"}
    /\ Len(df_prev.rows) = 2
    /\ ret.raised
    /\ ret.value.missing = <<"region", "satisfied">>

\* ======================================================================
\* Properties of compute_kpis and kpi_to_dict (checked under SpecKpis)
\* ======================================================================
\* C13: a batch with zero rows yields total = 0 with both rates and both
\* modes undefined, and the result goes through the KPI export without an
\* error, so the empty batch is a valid outcome.
C13_EmptyBatchIsValid ==
    df.rows = <<>> =>
        /\ calls = 1 =>
              /\ ~ret.raised
              /\ ret.value.total_reponses = 0
              /\ ret.value.satisfaction_rate = None
              /\ ret.value.recommendation_rate = None
              /\ ret.value.most_used_service = None
              /\ ret.value.top_region = None
        /\ calls = 2 =>
              /\ ~ret.raised
              /\ ret.value.total_responses = 0
              /\ ret.value.satisfaction_rate = None
              /\ ret.value.recommendation_rate = None
              /\ ret.value.most_used_service = None
              /\ ret.value.top_region = None

\* C14: on a non-empty batch compute_kpis returns the row count, the share
\* of true among the resolved values of each flag, and a most frequent
\* service and region; both rates lie in [0, 1].
C14_KpisOfNonEmptyBatch ==
    (calls = 1 /\ df.rows # <<>>) =>
        /\ ~ret.raised
        /\ ret.value.total_reponses = Len(df.rows)
        /\ ret.value.satisfaction_rate = BooleanMean(df, cm.satisfied_col)
        /\ ret.value.recommendation_rate = BooleanMean(df, cm.recommend_col)
        /\ 0 <= ret.value.satisfaction_rate[1]
        /\ ret.value.satisfaction_rate[1] <= ret.value.satisfaction_rate[2]
        /\ 0 <= ret.value.recommendation_rate[1]
        /\ ret.value.recommendation_rate[1] <= ret.value.recommendation_rate[2]
        /\ \A i \in 1..Len(df.rows) :
              /\ CountOf(df, cm.service_col, df.rows[i].data[cm.service_col])
                    <= CountOf(df, cm.service_col, ret.value.most_used_service)
              /\ CountOf(df, cm.region_col, df.rows[i].data[cm.region_col])
                    <= CountOf(df, cm.region_col, ret.value.top_region)

\* ======================================================================
\* Properties of write_reports (checked under SpecReports)
\* ======================================================================
\* C15: whatever the two switches, write_reports returns; the file summary
\* is written, the cleaned export and the KPI export are written exactly
\* when their switch is on, every file carries the returned run stamp, and
\* the returned paths are exactly the files written.
C15_ReportsFollowSwitches ==
    calls = 1 =>
        /\ ~ret.raised
        /\ ret.value.run_stamp = Stamp(now)
        /\ FileSummaryPath(args.basename, ret.value.run_stamp) \in reports
        /\ CleanedCsvPath(args.basename, ret.value.run_stamp) \in reports
              <=> args.write_cleaned_csv
        /\ KpiJsonPath(args.basename, ret.value.run_stamp) \in reports
              <=> args.write_kpi_json
        /\ reports = {ret.value.file_summary_csv, ret.value.cleaned_csv,
                      ret.value.kpi_json} \ {None}

\* ======================================================================
\* Properties of process_files (checked under SpecProcess)
\* ======================================================================
\* The rows of input file n as cleaning is to leave them.
CleanedRowsOf(n) ==
    KeepRows([k \in 1..Len(inbox[n].rows) |-> CleanedRow(inbox[n], cm, k)], 1,
             {k \in 1..Len(inbox[n].rows) : Survives(inbox[n], cm, k)})

\* C18: on well-formed inputs process_files returns a batch table with no two
\* rows of the same identity key; of the cleaned rows that share a key, across
\* files too, the batch holds the last one in discovery order; the file
\* summary has one row per input file, in discovery order.
C18_BatchHasNoDuplicates ==
    (calls = 1 /\ \A n \in DOMAIN inbox : WellFormed(inbox[n])) =>
        LET paths == DiscoverInputs(inbox)
            batch == ret.value.combined
            key == IdentityKey(UNION {inbox[n].columns : n \in DOMAIN inbox}, cm)
            Later(i, k, j, l) == j > i \/ (j = i /\ l > k)
        IN /\ ~ret.raised
           /\ \A a, b \in 1..Len(batch.rows) :
                 SameKey(batch.rows, a, b, key) => a = b
           /\ \A i \in 1..Len(paths) : \A k \in 1..Len(CleanedRowsOf(paths[i])) :
                 LET row == CleanedRowsOf(paths[i])[k]
                     last == ~\E j \in 1..Len(paths) :
                                \E l \in 1..Len(CleanedRowsOf(paths[j])) :
                                   /\ Later(i, k, j, l)
                                   /\ KeyOf(CleanedRowsOf(paths[j])[l], key) = KeyOf(row, key)
                 IN last => \E a \in 1..Len(batch.rows) : batch.rows[a].data = row.data
           /\ Len(ret.value.file_summaries) = Len(paths)
           /\ \A i \in 1..Len(paths) : ret.value.file_summaries[i].filename = paths[i]

\* ======================================================================
\* Properties of _move_file and send_report_email (checked under SpecRelocate)
\* ======================================================================
\* C19: no move overwrites a file of the destination directory: every file
\* relocated earlier is still there, with the content it had, after each
\* later step, however often a name arrives again.
C19_MoveNeverOverwrites ==
    [][\A n \in DOMAIN processed_dir :
          n \in DOMAIN processed_dir' /\ processed_dir'[n] = processed_dir[n]]_vars

\* C20: a call made with dry_run set moves no file and transmits no message:
\* the inbox, the processed-files area and the count of messages sent are
\* after the call what they were before it.
C20_DryRunMovesAndSendsNothing ==
    [][(calls' = calls + 1 /\ args'.dry_run) =>
          (inbox' = inbox /\ processed_dir' = processed_dir /\ sent' = sent)]_vars

\* A dry-run move of a file whose name is taken in the processed-files area:
\* the __dup destination is returned and the file is still in the inbox.
C20_Witness ==
    /\ calls >= 1
    /\ args.op = "_move_file"
    /\ args.dry_run
    /\ args.src \in DOMAIN inbox
    /\ args.src \in DOMAIN processed_dir
    /\ ret = Ok(DupName(args.src))

====
